---- MODULE Spec2Model ----
(***************************************************************************)
(* Model of src/script.js: the booking journal kept in localStorage, the   *)
(* quick-book and full-booking submit handlers, the modal helper and the   *)
(* kundli sector click handler.                                            *)
(*                                                                         *)
(* Strings that the code inspects character by character (trim, truthiness *)
(* startsWith) are sequences of one-character strings.  The value stored   *)
(* under 'jyotir_bookings' is a tagged text: the tag says what JSON.parse  *)
(* makes of it.                                                            *)
(***************************************************************************)
EXTENDS Integers, Sequences, FiniteSets, TLC

VARIABLES
    stored,        \* localStorage item 'jyotir_bookings'
    qform,         \* #qname, #qemail, #qdob of the quick-book form
    bform,         \* fields of #booking-form (name field and the .hp honeypot)
    bstatus,       \* #booking-status: presence and textContent
    inflight,      \* suspended runs of the async booking handler
    endpoint,      \* data-endpoint attribute of #booking-form
    modals,        \* .site-modal elements in document.body, in document order
    escListeners,  \* keydown listeners installed by showModal, by modal
    nextModal,     \* identity of the next element showModal creates
    features,      \* which optional elements the page has (#quick-book, ...)
    kundli,        \* the <g id="slices"> that buildKundli fills, and whether it is in the svg
    nav,           \* #nav-toggle, #nav-links, the viewport width and scroll target
    ev             \* the last dispatched event: its inputs and what it showed

vars == <<stored, qform, bform, bstatus, inflight, endpoint, modals, escListeners, nextModal,
          features, kundli, nav, ev>>

(***************************************************************************)
(* Bounds                                                                  *)
(***************************************************************************)
MaxLen == 2        \* longest string typed into a text field
MaxJournal == 2    \* longest journal the handlers are driven to
MaxReq == 2        \* booking submissions suspended at the same time
MaxOpens == 3      \* modal elements created in one page life

\* the record of a dispatched event: which listener ran, its argument, whether
\* the storage writes it made were let through, and whether it ended in a
\* storage exception
Ev(op, arg, n, ok, ok2, threw) ==
    [op |-> op, arg |-> arg, n |-> n, ok |-> ok, ok2 |-> ok2, threw |-> threw]

(***************************************************************************)
(* Strings                                                                 *)
(***************************************************************************)
Chars == {" ", "a"}
Strings == UNION {[1..n -> Chars] : n \in 0..MaxLen}
Dates == {<<>>, <<"d">>}
Emails == {s \in Strings : Len(s) <= 1}
Times == {0, 1}
Undefined == <<"undefined">>
EmptyString == <<>>

RECURSIVE TrimStart(_)
TrimStart(s) == IF s # <<>> /\ Head(s) = " " THEN TrimStart(Tail(s)) ELSE s

RECURSIVE TrimEnd(_)
TrimEnd(s) == IF s # <<>> /\ s[Len(s)] = " " THEN TrimEnd(SubSeq(s, 1, Len(s) - 1)) ELSE s

\* String.prototype.trim
Trim(s) == TrimEnd(TrimStart(s))

\* !x for x a string or undefined
Falsy(x) == x = Undefined \/ x = EmptyString

\* String.prototype.startsWith
StartsWith(s, p) == Len(s) >= Len(p) /\ SubSeq(s, 1, Len(p)) = p

(***************************************************************************)
(* localStorage and JSON                                                   *)
(***************************************************************************)
TextKinds == {"absent", "empty", "invalid", "null", "object", "string", "array"}

Text(kind, items) == [t |-> kind, items |-> items]

\* localStorage.getItem('jyotir_bookings') || '[]'
GetItemOrDefault(item) ==
    IF item.t \in {"absent", "empty"} THEN Text("array", <<>>) ELSE item

\* JSON.parse: throws on text that is not JSON, else yields the value
JSONparse(text) ==
    IF text.t = "invalid" THEN [threw |-> TRUE, val |-> Text("null", <<>>)]
    ELSE [threw |-> FALSE, val |-> text]

\* JSON.stringify of an array of records
JSONstringify(arr) == Text("array", arr)

\* Only arrays have a push method; null.push and {}.push raise a TypeError
HasPush(val) == val.t = "array"

\* a journal write that puts the new record first (unshift for push)
JournalAppendPrepend(item, rec, ok) ==
    LET p == JSONparse(GetItemOrDefault(item)) IN
    IF p.threw \/ ~HasPush(p.val) \/ ~ok
    THEN [threw |-> TRUE, stored |-> item]
    ELSE [threw |-> FALSE, stored |-> JSONstringify(<<rec>> \o p.val.items)]

\* a journal write that replaces the journal by the new record alone
JournalAppendOverwrite(item, rec, ok) ==
    IF ~ok THEN [threw |-> TRUE, stored |-> item]
    ELSE [threw |-> FALSE, stored |-> JSONstringify(<<rec>>)]

\* const arr = JSON.parse(getItem(..)||'[]'); arr.push(rec); setItem(.., JSON.stringify(arr))
\* ok: whether localStorage.setItem returns (it throws when the quota is exceeded)
JournalAppend(item, rec, ok) ==
    LET p == JSONparse(GetItemOrDefault(item)) IN
    IF p.threw \/ ~HasPush(p.val) \/ ~ok
    THEN [threw |-> TRUE, stored |-> item]
    ELSE [threw |-> FALSE, stored |-> JSONstringify(Append(p.val.items, rec))]

\* the journal as the handlers see it, for well-formed storage
IsArray(item) == GetItemOrDefault(item).t = "array"
Journal(item) == GetItemOrDefault(item).items

\* room for one more record beside those the suspended submissions will write
Room == ~IsArray(stored) \/ Len(Journal(stored)) + Cardinality(DOMAIN inflight) < MaxJournal

(***************************************************************************)
(* Quick-book form                                                         *)
(***************************************************************************)
Field(present, value) == [present |-> present, value |-> value]

QuickFields == {"name", "email", "dob"}

ValidationAlert == "Please fill all quick booking fields."
ReceivedAlert == "Quick request received. We will contact you soon."
NoAlert == "none"

\* $('#qname')?.value?.trim()
TrimmedValue(f) == IF f.present THEN Trim(f.value) ELSE Undefined

\* $('#qdob')?.value
RawValue(f) == IF f.present THEN f.value ELSE Undefined

\* form.reset(): every control goes back to its default value
ResetFields(form) == [k \in DOMAIN form |-> Field(form[k].present, EmptyString)]

\* the condition of line 62 with !dob dropped
QuickMissingNoDob(name, email, dob) == Falsy(name) \/ Falsy(email)

\* if (!name || !email || !dob)
QuickMissing(name, email, dob) == Falsy(name) \/ Falsy(email) \/ Falsy(dob)

QuickRecord(name, email, dob, now) ==
    [name |-> name, email |-> email, dob |-> dob, created |-> now]

\* the user edits one input of the quick-book form
TypeQuick ==
    \E k \in QuickFields :
      \E v \in (CASE k = "name" -> Strings [] k = "email" -> Emails [] k = "dob" -> Dates) :
        /\ "quick" \in features
        /\ qform[k].present
        /\ qform[k].value # v
        /\ qform' = [qform EXCEPT ![k].value = v]
        /\ ev' = Ev("type", "", 0, TRUE, TRUE, FALSE)
        /\ UNCHANGED <<stored, bform, bstatus, inflight, endpoint, modals, escListeners, nextModal, features, kundli, nav>>

\* quickForm 'submit' listener.  A submission that never reaches setItem is
\* recorded with ok = TRUE, so that one run of the handler is one step.
QuickSubmit ==
    \E ok \in BOOLEAN, now \in Times :
      LET name == TrimmedValue(qform.name)
          email == TrimmedValue(qform.email)
          dob == RawValue(qform.dob)
          r == JournalAppend(stored, QuickRecord(name, email, dob, now), ok)
      IN
      /\ "quick" \in features
      /\ Room
      /\ IF QuickMissing(name, email, dob)
         THEN /\ ok
              /\ ev' = Ev("quick", ValidationAlert, 0, ok, TRUE, FALSE)
              /\ UNCHANGED <<stored, qform>>
         ELSE IF r.threw
         THEN /\ ev' = Ev("quick", NoAlert, 0, ok, TRUE, TRUE)
              /\ UNCHANGED <<stored, qform>>
         ELSE /\ stored' = r.stored
              /\ qform' = ResetFields(qform)
              /\ ev' = Ev("quick", ReceivedAlert, 0, ok, TRUE, FALSE)
      /\ UNCHANGED <<bform, bstatus, inflight, endpoint, modals, escListeners, nextModal, features, kundli, nav>>

(***************************************************************************)
(* Full booking form                                                       *)
(***************************************************************************)
BookingNames == {EmptyString, <<"a">>}
HpValues == {EmptyString, <<"a">>}
Null == <<"null">>
Http == <<"h", "t", "t", "p">>
Endpoints == {Null, EmptyString, <<"/", "a">>, Http \o <<":">>}
JsonBodies == {"null", "{}"}

Submitting == "Submitting..."
Confirmed == "Booking confirmed. We will email you shortly."
\* (the dash of the source text is written '-')
NetworkIssue == "Network issue - booking saved locally. We will retry later."
NoEndpoint == "No server endpoint configured - saving locally."
SavedLocally == "Saved locally. You will receive confirmation after manual review."
FailedToSave == "Failed to save booking. Please try again later or contact via WhatsApp."

\* if (bookingStatus) bookingStatus.textContent = text
SetStatus(st, text) == IF st.present THEN [st EXCEPT !.text = text] ELSE st

\* a honeypot check with the test of the value negated
HoneypotInverted(form) == form.hp.present /\ Falsy(form.hp.value)

\* bookingForm.querySelector('.hp') && bookingForm.querySelector('.hp').value
Honeypot(form) == form.hp.present /\ ~Falsy(form.hp.value)

\* new FormData(bookingForm) copied into obj: one entry per control of the form
FormDataObj(form) ==
    IF form.hp.present
    THEN [name |-> form.name.value, hp |-> form.hp.value]
    ELSE [name |-> form.name.value]

\* bookingForm.getAttribute('data-endpoint') || null
EndpointAttr(e) == IF e = EmptyString THEN Null ELSE e

\* endpoint && endpoint.startsWith('http')
HasEndpoint(e) == EndpointAttr(e) # Null /\ StartsWith(EndpointAttr(e), Http)

\* {...obj, serverResponse: json, submittedAt: now}
SuccessRecord(obj, json, now) == [serverResponse |-> json, submittedAt |-> now] @@ obj

\* {...obj, fallbackSavedAt: now}
FallbackRecord(obj, now) == [fallbackSavedAt |-> now] @@ obj

\* a fallback save that resets the form whether or not the write threw
FallbackSaveAlwaysReset(item, obj, ok, now) ==
    LET r == JournalAppend(item, FallbackRecord(obj, now), ok) IN
    [stored |-> r.stored, status |-> IF r.threw THEN FailedToSave ELSE SavedLocally,
     reset |-> TRUE, threw |-> r.threw]

\* lines 129-136: try { append; status; reset } catch { status }
FallbackSave(item, obj, ok, now) ==
    LET r == JournalAppend(item, FallbackRecord(obj, now), ok) IN
    IF r.threw
    THEN [stored |-> item, status |-> FailedToSave, reset |-> FALSE, threw |-> TRUE]
    ELSE [stored |-> r.stored, status |-> SavedLocally, reset |-> TRUE, threw |-> FALSE]

FreeIds == (1..MaxReq) \ DOMAIN inflight
NewId == CHOOSE i \in FreeIds : \A j \in FreeIds : i <= j
\* a handler that goes back to the pending request in place of returning
WithoutRetry(f, id) == [f EXCEPT ![id].pc = "fetch", ![id].timer = TRUE]
Without(f, id) == [i \in DOMAIN f \ {id} |-> f[i]]

\* the user (or a bot) edits a control of the booking form
TypeBooking ==
    \E k \in {"name", "hp"} :
      \E v \in (IF k = "hp" THEN HpValues ELSE BookingNames) :
        /\ "booking" \in features
        /\ bform[k].present
        /\ bform[k].value # v
        /\ bform' = [bform EXCEPT ![k].value = v]
        /\ ev' = Ev("type", "", 0, TRUE, TRUE, FALSE)
        /\ UNCHANGED <<stored, qform, bstatus, inflight, endpoint, modals, escListeners, nextModal, features, kundli, nav>>

\* bookingForm 'submit' listener, up to the await of fetch or to its return
\* valid: the result of bookingForm.checkValidity(), which the markup decides
\* ok: whether setItem returns; TRUE on the paths that do not reach it
BookingSubmit ==
    \E valid \in BOOLEAN, ok \in BOOLEAN, now \in Times :
      LET obj == FormDataObj(bform)
          s == FallbackSave(stored, obj, ok, now)
      IN
      /\ "booking" \in features
      /\ Room
      /\ FreeIds # {}
      /\ IF ~valid
         THEN /\ ok
              /\ ev' = Ev("booking", "invalid", 0, ok, TRUE, FALSE)
              /\ UNCHANGED <<stored, bform, bstatus, inflight>>
         ELSE IF Honeypot(bform)
         THEN /\ ok
              /\ ev' = Ev("booking", "honeypot", 0, ok, TRUE, FALSE)
              /\ UNCHANGED <<stored, bform, bstatus, inflight>>
         ELSE IF HasEndpoint(endpoint)
         THEN /\ ok
              /\ bstatus' = SetStatus(bstatus, Submitting)
              /\ inflight' = NewId :> [pc |-> "fetch", obj |-> obj, timer |-> TRUE] @@ inflight
              /\ ev' = Ev("booking", "fetch", NewId, ok, TRUE, FALSE)
              /\ UNCHANGED <<stored, bform>>
         ELSE /\ bstatus' = SetStatus(bstatus, s.status)
              /\ stored' = s.stored
              /\ bform' = IF s.reset THEN ResetFields(bform) ELSE bform
              /\ ev' = Ev("booking", "local", 0, ok, TRUE, s.threw)
              /\ UNCHANGED inflight
      /\ UNCHANGED <<qform, endpoint, modals, escListeners, nextModal, features, kundli, nav>>

\* lines 110-112: clearTimeout(id), resp.ok holds, await resp.json()
AfterFetch(run) == [run EXCEPT !.pc = "json", !.timer = FALSE]

\* the awaited fetch settles: a response (ok or not), a network error, or the
\* abort of the 15 s timer, which is live exactly while the fetch is pending
FetchSettles ==
    \E id \in DOMAIN inflight :
      \E outcome \in {"ok", "httpError", "networkError", "abort"}, ok \in BOOLEAN, now \in Times :
        LET obj == inflight[id].obj
            s == FallbackSave(stored, obj, ok, now)
        IN
        /\ inflight[id].pc = "fetch"
        /\ IF outcome = "ok"
           THEN /\ ok
                /\ inflight' = [inflight EXCEPT ![id] = AfterFetch(@)]
                /\ ev' = Ev("fetchSettled", outcome, id, ok, TRUE, FALSE)
                /\ UNCHANGED <<stored, bform, bstatus>>
           ELSE /\ bstatus' = SetStatus(bstatus, s.status)
                /\ stored' = s.stored
                /\ bform' = IF s.reset THEN ResetFields(bform) ELSE bform
                /\ inflight' = Without(inflight, id)
                /\ ev' = Ev("fetchSettled", outcome, id, ok, TRUE, s.threw)
        /\ UNCHANGED <<qform, endpoint, modals, escListeners, nextModal, features, kundli, nav>>

\* lines 113-118 with a save that failed falling to the fallback save with the
\* form left as the user filled it
SuccessPathSaveFirst(item, form, obj, json, ok1, now1, ok2, now2) ==
    LET r == JournalAppend(item, SuccessRecord(obj, json, now1), ok1)
        s == FallbackSave(item, obj, ok2, now2)
    IN
    IF ~r.threw
    THEN [stored |-> r.stored, status |-> Confirmed, form |-> ResetFields(form), threw |-> FALSE]
    ELSE [stored |-> s.stored, status |-> s.status,
          form |-> IF s.reset THEN ResetFields(form) ELSE form, threw |-> s.threw]

\* lines 113-118, then on a throw the catch of lines 119-123 and lines 129-136
SuccessPath(item, form, obj, json, ok1, now1, ok2, now2) ==
    LET r == JournalAppend(item, SuccessRecord(obj, json, now1), ok1)
        s == FallbackSave(item, obj, ok2, now2)
    IN
    IF ~r.threw
    THEN [stored |-> r.stored, status |-> Confirmed, form |-> ResetFields(form), threw |-> FALSE]
    ELSE [stored |-> s.stored, status |-> s.status, form |-> ResetFields(form), threw |-> s.threw]

\* the awaited resp.json().catch(()=>null) settles with the body or with null
\* ok1, now1: setItem and new Date() of line 117; ok2, now2: those of line 130,
\* which are read only when line 117 threw
JsonSettles ==
    \E id \in DOMAIN inflight :
      \E json \in JsonBodies, ok1 \in BOOLEAN, ok2 \in BOOLEAN, now1 \in Times, now2 \in Times :
        LET obj == inflight[id].obj
            s == SuccessPath(stored, bform, obj, json, ok1, now1, ok2, now2)
        IN
        /\ inflight[id].pc = "json"
        /\ now1 <= now2
        /\ ~JournalAppend(stored, SuccessRecord(obj, json, now1), ok1).threw => ok2 /\ now2 = now1
        /\ bstatus' = SetStatus(bstatus, s.status)
        /\ stored' = s.stored
        /\ bform' = s.form
        /\ inflight' = Without(inflight, id)
        /\ ev' = Ev("jsonSettled", json, id, ok1, ok2, s.threw)
        /\ UNCHANGED <<qform, endpoint, modals, escListeners, nextModal, features, kundli, nav>>

(***************************************************************************)
(* Modal helper, article buttons and kundli sectors                        *)
(***************************************************************************)
NumSectors == 12
Houses == 1..NumSectors
ArticleKeys == {"birth-chart", "compatibility", "other"}
ClickTargets == {"modal", "backdrop", "panel", "closeBtn", "content"}
Keys == {"Escape", "a"}

Html(kind, key, house, owner) == [kind |-> kind, key |-> key, house |-> house, owner |-> owner]

\* the handler's content table, with its '<p>Article not found.</p>' default
ArticleContent(key) ==
    IF key \in {"birth-chart", "compatibility"}
    THEN Html("article", key, 0, EmptyString)
    ELSE Html("notfound", "", 0, EmptyString)

\* showModal that does not remove the existing element
ShowModalStacking(ms, ls, n, html) ==
    [modals |-> Append(ms, [id |-> n, html |-> html]), listeners |-> ls \cup {n}, next |-> n + 1]

\* function showModal(html): drop the first .site-modal, append a new one,
\* add its click listener and one more keydown listener on document
ShowModal(ms, ls, n, html) ==
    [modals |-> Append(IF ms # <<>> THEN Tail(ms) ELSE ms, [id |-> n, html |-> html]),
     listeners |-> ls \cup {n},
     next |-> n + 1]

ModalIds == {modals[i].id : i \in DOMAIN modals}

\* Element.remove() of the modal with this identity (no effect when detached)
RemoveModal(ms, id) == SelectSeq(ms, LAMBDA m : m.id # id)

\* button[data-article] 'click' listener
ArticleClick ==
    \E key \in ArticleKeys :
      LET m == ShowModal(modals, escListeners, nextModal, ArticleContent(key)) IN
      /\ "articles" \in features
      /\ nextModal <= MaxOpens
      /\ modals' = m.modals
      /\ escListeners' = m.listeners
      /\ nextModal' = m.next
      /\ ev' = Ev("article", key, 0, TRUE, TRUE, FALSE)
      /\ UNCHANGED <<stored, qform, bform, bstatus, inflight, endpoint, features, kundli, nav>>

\* bookings.length on the parsed value: a TypeError on null, undefined (falsy)
\* on an object, the number of elements or characters otherwise
LengthThrows(val) == val.t = "null"
LengthTruthy(val) == \/ val.t = "string"
                     \/ val.t = "array" /\ val.items # <<>>

\* the name of the first record in place of the last
FirstName(val) ==
    IF val.t = "array" /\ val.items # <<>> /\ "name" \in DOMAIN val.items[1]
    THEN val.items[1].name
    ELSE Undefined

\* last?.name, for last = bookings[bookings.length-1] or null
LastName(val) ==
    IF val.t = "array" /\ val.items # <<>> /\ "name" \in DOMAIN val.items[Len(val.items)]
    THEN val.items[Len(val.items)].name
    ELSE Undefined

\* const owner = last?.name ? `<p><strong>For:</strong> ${last.name}</p>` : ''
Owner(val) ==
    IF LengthTruthy(val) /\ ~Falsy(LastName(val)) THEN LastName(val) ELSE EmptyString

\* whether lines 202-204 raise
SectorThrows(item) ==
    LET p == JSONparse(GetItemOrDefault(item)) IN p.threw \/ LengthThrows(p.val)

(***************************************************************************)
(* buildKundli.  Angles are kept in degrees; the code multiplies each by   *)
(* Math.PI/180 before taking its cosine and sine.                          *)
(***************************************************************************)
SliceDegrees == 30
TopOffset == 90
EvenFill == "#121227"
OddFill == "#0f1020"

\* a loop body whose end angle is written with i in place of i+1
SectorNoAdvance(i) ==
    [start |-> i * SliceDegrees - TopOffset,
     end |-> i * SliceDegrees - TopOffset,
     fill |-> IF i % 2 = 0 THEN EvenFill ELSE OddFill,
     house |-> i + 1,
     label |-> i + 1]

\* the path and the text that iteration i of the loop appends
Sector(i) ==
    [start |-> i * SliceDegrees - TopOffset,
     end |-> (i + 1) * SliceDegrees - TopOffset,
     fill |-> IF i % 2 = 0 THEN EvenFill ELSE OddFill,
     house |-> i + 1,
     label |-> i + 1]

\* the diagram when buildKundli has returned
BuiltKundli == [slices |-> [k \in 1..NumSectors |-> Sector(k - 1)], mounted |-> TRUE]
NoKundli == [slices |-> <<>>, mounted |-> FALSE]

\* one iteration of for (let i=0;i<12;i++), with i the number of slices so far
BuildSector ==
    /\ "kundli" \in features
    /\ ~kundli.mounted
    /\ Len(kundli.slices) < NumSectors
    /\ kundli' = [kundli EXCEPT !.slices = Append(@, Sector(Len(@)))]
    /\ ev' = Ev("build", "", Len(kundli.slices), TRUE, TRUE, FALSE)
    /\ UNCHANGED <<stored, qform, bform, bstatus, inflight, endpoint, modals, escListeners,
                   nextModal, features, nav>>

\* the loop ends and svg.appendChild(slicesGroup) puts the slices on the page
MountKundli ==
    /\ "kundli" \in features
    /\ ~kundli.mounted
    /\ Len(kundli.slices) = NumSectors
    /\ kundli' = [kundli EXCEPT !.mounted = TRUE]
    /\ ev' = Ev("mount", "", 0, TRUE, TRUE, FALSE)
    /\ UNCHANGED <<stored, qform, bform, bstatus, inflight, endpoint, modals, escListeners,
                   nextModal, features, nav>>

\* path 'click' listener of the h-th path; house is its data-house attribute
SectorClick ==
    \E h \in Houses :
      LET p == JSONparse(GetItemOrDefault(stored))
          house == kundli.slices[h].house
          m == ShowModal(modals, escListeners, nextModal, Html("house", "", house, Owner(p.val)))
      IN
      /\ kundli.mounted
      /\ h \in DOMAIN kundli.slices
      /\ nextModal <= MaxOpens
      /\ IF SectorThrows(stored)
         THEN /\ ev' = Ev("sector", "house", h, TRUE, TRUE, TRUE)
              /\ UNCHANGED <<modals, escListeners, nextModal>>
         ELSE /\ modals' = m.modals
              /\ escListeners' = m.listeners
              /\ nextModal' = m.next
              /\ ev' = Ev("sector", "house", h, TRUE, TRUE, FALSE)
      /\ UNCHANGED <<stored, qform, bform, bstatus, inflight, endpoint, features, kundli, nav>>

\* if (e.target === modal || e.target === closeBtn)
ClickCloses(target) == target \in {"modal", "closeBtn"}

\* a click inside an open modal, dispatched to that modal's 'click' listener
ModalClick ==
    \E i \in DOMAIN modals, target \in ClickTargets :
      /\ modals' = IF ClickCloses(target) THEN RemoveModal(modals, modals[i].id) ELSE modals
      /\ ev' = Ev("click", target, modals[i].id, TRUE, TRUE, FALSE)
      /\ UNCHANGED <<stored, qform, bform, bstatus, inflight, endpoint, escListeners, nextModal, features, kundli, nav>>

\* a keydown on document: every esc listener runs; on Escape each removes
\* its modal and itself
KeyDown ==
    \E key \in Keys :
      /\ IF key = "Escape"
         THEN /\ modals' = SelectSeq(modals, LAMBDA m : m.id \notin escListeners)
              /\ escListeners' = {}
         ELSE UNCHANGED <<modals, escListeners>>
      /\ ev' = Ev("key", key, 0, TRUE, TRUE, FALSE)
      /\ UNCHANGED <<stored, qform, bform, bstatus, inflight, endpoint, nextModal, features, kundli, nav>>

(***************************************************************************)
(* Navigation toggle and in-page links                                     *)
(***************************************************************************)
NarrowWidth == 720
Widths == {NarrowWidth - 400, NarrowWidth - 1, NarrowWidth, NarrowWidth + 300}
Hrefs == {"#", "#home", "#services", "#missing"}
Sections == {"#home", "#services"}

\* navToggle 'click' listener
ToggleClick ==
    LET expanded == nav.expanded = "true" IN
    /\ nav.toggle /\ nav.links
    /\ nav' = [nav EXCEPT !.expanded = IF expanded THEN "false" ELSE "true",
                          !.display = IF expanded THEN "" ELSE "flex"]
    /\ ev' = Ev("toggle", "", 0, TRUE, TRUE, FALSE)
    /\ UNCHANGED <<stored, qform, bform, bstatus, inflight, endpoint, modals, escListeners,
                   nextModal, features, kundli>>

\* a[href^="#"] 'click' listener; a bare '#' and a missing target are left to
\* the browser
LinkClick ==
    \E href \in Hrefs :
      /\ IF href # "#" /\ href \in Sections
         THEN nav' = [nav EXCEPT !.scrolledTo = href,
                                 !.display = IF nav.links /\ nav.width < NarrowWidth
                                             THEN "" ELSE @]
         ELSE UNCHANGED nav
      /\ ev' = Ev("link", href, 0, TRUE, TRUE, FALSE)
      /\ UNCHANGED <<stored, qform, bform, bstatus, inflight, endpoint, modals, escListeners,
                     nextModal, features, kundli>>

(***************************************************************************)
(* Specifications                                                          *)
(***************************************************************************)
InitJournals ==
    {<<>>,
     <<QuickRecord(<<"a">>, <<"a">>, <<"d">>, 0)>>,
     <<FallbackRecord([name |-> EmptyString], 0)>>,
     <<QuickRecord(<<"a">>, <<"a">>, <<"d">>, 0), FallbackRecord([name |-> EmptyString], 1)>>,
     <<QuickRecord(<<"a">>, <<"a">>, <<"d">>, 0), QuickRecord(<<"a", "a">>, <<"a">>, <<"d">>, 1)>>}

Features == {"quick", "booking", "articles", "kundli"}

\* what a page load can find under 'jyotir_bookings'
InitStored ==
    {Text(k, <<>>) : k \in TextKinds \ {"array"}} \cup {Text("array", j) : j \in InitJournals}

\* the state when DOMContentLoaded has run: controls hold their defaults
Init ==
    /\ stored \in InitStored
    /\ qform \in {[k \in QuickFields |-> Field(k \in P, EmptyString)] : P \in SUBSET QuickFields}
    /\ bform \in {[name |-> Field(TRUE, EmptyString), hp |-> Field(h, EmptyString)] : h \in BOOLEAN}
    /\ bstatus \in {[present |-> b, text |-> ""] : b \in BOOLEAN}
    /\ inflight = <<>>
    /\ endpoint \in Endpoints
    /\ modals = <<>>
    /\ escListeners = {}
    /\ nextModal = 1
    /\ features \in SUBSET Features
    /\ kundli = IF "kundli" \in features THEN BuiltKundli ELSE NoKundli
    /\ nav \in {[toggle |-> t, links |-> l, expanded |-> e, display |-> "", width |-> w,
                  scrolledTo |-> "none"] :
                    t \in BOOLEAN, l \in BOOLEAN, e \in {"null", "false"}, w \in Widths}
    /\ ev = Ev("load", "", 0, TRUE, TRUE, FALSE)

\* the parts of the page a specification leaves out: no nav elements
NoNav == ~nav.toggle /\ ~nav.links /\ nav.expanded = "null" /\ nav.width = NarrowWidth

\* a page whose only feature is the quick-book form
InitQuick ==
    /\ Init
    /\ features = {"quick"} /\ NoNav
    /\ bform.hp.present /\ bstatus.present /\ endpoint = Null

NextQuick == TypeQuick \/ QuickSubmit

SpecQuick == InitQuick /\ [][NextQuick]_vars

\* a page whose only feature is the full booking form
InitBooking ==
    /\ Init
    /\ features = {"booking"} /\ NoNav
    /\ \A k \in QuickFields : qform[k].present

NextBooking == TypeBooking \/ BookingSubmit \/ FetchSettles \/ JsonSettles

SpecBooking == InitBooking /\ [][NextBooking]_vars

\* a page with article buttons and the kundli diagram, and no form
InitModal ==
    /\ Init
    /\ features = {"articles", "kundli"} /\ NoNav
    /\ \A k \in QuickFields : qform[k].present
    /\ bform.hp.present /\ bstatus.present /\ endpoint = Null

NextModal == ArticleClick \/ SectorClick \/ ModalClick \/ KeyDown

SpecModal == InitModal /\ [][NextModal]_vars

\* the DOMContentLoaded handler while it runs buildKundli, then the page
InitKundli ==
    /\ stored \in InitStored
    /\ qform = [k \in QuickFields |-> Field(TRUE, EmptyString)]
    /\ bform = [name |-> Field(TRUE, EmptyString), hp |-> Field(TRUE, EmptyString)]
    /\ bstatus = [present |-> TRUE, text |-> ""]
    /\ inflight = <<>>
    /\ endpoint = Null
    /\ modals = <<>>
    /\ escListeners = {}
    /\ nextModal = 1
    /\ features = {"articles", "kundli"}
    /\ kundli = NoKundli
    /\ nav = [toggle |-> FALSE, links |-> FALSE, expanded |-> "null", display |-> "",
              width |-> NarrowWidth, scrolledTo |-> "none"]
    /\ ev = Ev("load", "", 0, TRUE, TRUE, FALSE)

NextKundli == BuildSector \/ MountKundli \/ (kundli.mounted /\ NextModal)

SpecKundli == InitKundli /\ [][NextKundli]_vars

\* a page with the nav elements and in-page links, and nothing else
InitNav ==
    /\ Init
    /\ features = {}
    /\ stored = Text("absent", <<>>)
    /\ \A k \in QuickFields : qform[k].present
    /\ bform.hp.present /\ bstatus.present /\ endpoint = Null

NextNav == ToggleClick \/ LinkClick

SpecNav == InitNav /\ [][NextNav]_vars

\* the user fills the three inputs of the quick-book form
FillQuick ==
    /\ "quick" \in features
    /\ \A k \in QuickFields : qform[k].present
    /\ qform' = [name |-> Field(TRUE, <<" ", "a">>), email |-> Field(TRUE, <<"a">>),
                 dob |-> Field(TRUE, <<"d">>)]
    /\ qform' # qform
    /\ ev' = Ev("type", "", 0, TRUE, TRUE, FALSE)
    /\ UNCHANGED <<stored, bform, bstatus, inflight, endpoint, modals, escListeners,
                   nextModal, features, kundli, nav>>

\* the user fills the name field of the booking form
FillBooking ==
    /\ "booking" \in features
    /\ bform' = [bform EXCEPT !.name.value = <<"a">>]
    /\ bform' # bform
    /\ ev' = Ev("type", "", 0, TRUE, TRUE, FALSE)
    /\ UNCHANGED <<stored, qform, bstatus, inflight, endpoint, modals, escListeners,
                   nextModal, features, kundli, nav>>

\* a page with both forms, or a page with the article buttons and the diagram;
\* the stored item is absent or a journal written by this script
InitPage ==
    /\ Init
    /\ features \in {{"quick", "booking"}, {"articles", "kundli"}}
    /\ NoNav
    /\ IsArray(stored)
    /\ \A k \in QuickFields : qform[k].present
    /\ ~bform.hp.present /\ bstatus.present
    /\ endpoint \in {Null, Http \o <<":">>}

NextPage ==
    \/ FillQuick \/ QuickSubmit
    \/ FillBooking \/ BookingSubmit \/ FetchSettles \/ JsonSettles
    \/ ArticleClick \/ SectorClick \/ ModalClick \/ KeyDown

SpecPage == InitPage /\ [][NextPage]_vars

Next == NextQuick \/ NextBooking \/ NextModal \/ NextNav

Spec == Init /\ [][Next]_vars

(***************************************************************************)
(* Shapes the claims speak of                                              *)
(***************************************************************************)
\* after is before with exactly one record appended
OneAppended(before, after) ==
    /\ after.t = "array"
    /\ Len(after.items) = Len(Journal(before)) + 1
    /\ SubSeq(after.items, 1, Len(Journal(before))) = Journal(before)

Newest(item) == item.items[Len(item.items)]

\* rec holds every field of obj with obj's value
CarriesFields(rec, obj) == \A k \in DOMAIN obj : k \in DOMAIN rec /\ rec[k] = obj[k]

\* a record saved without network confirmation
IsFallbackRecord(rec, obj) ==
    /\ CarriesFields(rec, obj)
    /\ "fallbackSavedAt" \in DOMAIN rec /\ rec.fallbackSavedAt \in Times
    /\ "serverResponse" \notin DOMAIN rec

\* a record saved after the server answered with json
IsConfirmedRecord(rec, obj, json) ==
    /\ CarriesFields(rec, obj)
    /\ "serverResponse" \in DOMAIN rec /\ rec.serverResponse = json
    /\ "submittedAt" \in DOMAIN rec /\ rec.submittedAt \in Times
    /\ "fallbackSavedAt" \notin DOMAIN rec

IsReset(form) == \A k \in DOMAIN form : form[k].value = EmptyString

StatusIs(st, text) == st.present => st.text = text

FetchFailures == {"httpError", "networkError", "abort"}

\* this step is the continuation of a submission whose request failed
FetchFailedStep == ev'.op = "fetchSettled" /\ ev'.arg \in FetchFailures

\* this step is the continuation of a submission whose request succeeded
JsonSettledStep == ev'.op = "jsonSettled"

(***************************************************************************)
(* C1  A submission whose request ends in a non-success status, a network  *)
(* error or the 15 s abort appends exactly one record, which carries the   *)
(* form fields and a fallback-saved timestamp and no server response, and  *)
(* resets the form.                                                        *)
(***************************************************************************)
C1_FailedRequestAlwaysSaves ==
    [][FetchFailedStep =>
         /\ OneAppended(stored, stored')
         /\ IsFallbackRecord(Newest(stored'), inflight[ev'.n].obj)
         /\ IsReset(bform')]_vars

\* C1 as amended: the same, unless the local save throws (the storage write
\* fails or the stored value is not a JSON array); then nothing is appended,
\* the form keeps its values and the status is the failure message.
C1_FailedRequestSavesOrReports ==
    [][FetchFailedStep =>
         IF ev'.ok /\ IsArray(stored)
         THEN /\ OneAppended(stored, stored')
              /\ IsFallbackRecord(Newest(stored'), inflight[ev'.n].obj)
              /\ IsReset(bform')
              /\ StatusIs(bstatus', SavedLocally)
              /\ ~ev'.threw
         ELSE /\ stored' = stored
              /\ bform' = bform
              /\ StatusIs(bstatus', FailedToSave)
              /\ ev'.threw]_vars

C1_Witness ==
    /\ ev.op = "fetchSettled" /\ ev.arg = "abort" /\ ~ev.threw
    /\ stored.t = "array" /\ Len(stored.items) = 2
    /\ "fallbackSavedAt" \in DOMAIN Newest(stored) /\ Newest(stored).name = <<"a">>
    /\ IsReset(bform)

C3_StorageFailureKeepsInput ==
    [][(ev'.op \in {"booking", "fetchSettled", "jsonSettled"} /\ ev'.threw) =>
         /\ bform' = bform
         /\ stored' = stored]_vars

(***************************************************************************)
(* C4  After any sequence of modal opens and dismissals at most one Escape *)
(* keydown listener installed by showModal is registered on the document,  *)
(* and none belongs to a modal that has been removed.                      *)
(***************************************************************************)
C4_EscListenerHygiene ==
    /\ Cardinality(escListeners) <= 1
    /\ escListeners \subseteq ModalIds

(***************************************************************************)
(* C5  When the stored journal is not valid JSON or not an array,          *)
(* activating a sector still opens a modal for that house, without the     *)
(* personalization line, and the handler raises no error.                  *)
(***************************************************************************)
C5_MalformedJournalStillOpens ==
    (ev.op = "sector" /\ ~IsArray(stored)) =>
        /\ ~ev.threw
        /\ Len(modals) = 1
        /\ modals[1].html.kind = "house"
        /\ modals[1].html.house = ev.n
        /\ modals[1].html.owner = EmptyString

(***************************************************************************)
(* C6  When the stored journal is absent, not valid JSON, or JSON that is  *)
(* not an array, a valid quick-book submission and a full-booking local    *)
(* save (with a storage write that goes through) leave the journal as the  *)
(* one-element sequence holding the new record, and raise no parse error.  *)
(***************************************************************************)
C6_AppendOverMalformed ==
    [][(/\ stored.t # "array"
        /\ ev'.ok
        /\ \/ ev'.op = "quick" /\ ev'.arg # ValidationAlert
           \/ ev'.op = "booking" /\ ev'.arg = "local"
           \/ ev'.op = "fetchSettled" /\ ev'.arg \in FetchFailures)
       => /\ ~ev'.threw
          /\ stored'.t = "array"
          /\ Len(stored'.items) = 1]_vars

(***************************************************************************)
(* C7  While a modal is open, a click on the close button, a click whose   *)
(* target is the backdrop element itself, and an Escape key press each     *)
(* remove the modal; a click on the inner panel or its content leaves it.  *)
(***************************************************************************)
C7_DismissalTriggers ==
    /\ (ev.op = "click" /\ ev.arg \in {"closeBtn", "backdrop"}) => ev.n \notin ModalIds
    /\ (ev.op = "click" /\ ev.arg \in {"panel", "content"}) => ev.n \in ModalIds
    /\ (ev.op = "key" /\ ev.arg = "Escape") => modals = <<>>

(***************************************************************************)
(* C8  At most one modal element is ever present, and immediately after an *)
(* article-button click or a sector activation exactly one is present and  *)
(* it shows the content of that activation.                                *)
(***************************************************************************)
C8_NoModalStacking ==
    /\ Len(modals) <= 1
    /\ ev.op = "article" => Len(modals) = 1 /\ modals[1].html = ArticleContent(ev.arg)
    /\ ev.op = "sector" =>
          /\ Len(modals) = 1
          /\ modals[1].html.kind = "house"
          /\ modals[1].html.house = ev.n

(***************************************************************************)
(* C9  A quick-book submission whose trimmed name, trimmed email and date  *)
(* of birth are all non-empty, with a well-formed stored journal and a     *)
(* working storage, leaves the journal as it was with exactly one record   *)
(* appended, holding that name, email, date of birth and a creation        *)
(* timestamp, and resets the form fields.                                  *)
(***************************************************************************)
Blank(f) == ~f.present \/ \A i \in DOMAIN f.value : f.value[i] = " "

C9_QuickBookAppends ==
    [][(/\ ev'.op = "quick"
        /\ ~Blank(qform.name) /\ ~Blank(qform.email) /\ ~Blank(qform.dob)
        /\ IsArray(stored)
        /\ ev'.ok)
       => /\ OneAppended(stored, stored')
          /\ DOMAIN Newest(stored') = {"name", "email", "dob", "created"}
          /\ Newest(stored').name = Trim(qform.name.value)
          /\ Newest(stored').email = Trim(qform.email.value)
          /\ Newest(stored').dob = qform.dob.value
          /\ Newest(stored').created \in Times
          /\ IsReset(qform')
          /\ ev'.arg = ReceivedAlert]_vars

C9_Witness ==
    /\ ev.op = "quick" /\ ev.arg = ReceivedAlert
    /\ stored.t = "array" /\ Len(stored.items) = 2
    /\ Newest(stored).name = <<"a", "a">> /\ "created" \in DOMAIN Newest(stored)
    /\ IsReset(qform)

(***************************************************************************)
(* C10  A quick-book submission in which name or email is empty after      *)
(* trimming or the date of birth is empty (or the input element is absent) *)
(* leaves the journal unchanged, does not reset the form and shows the     *)
(* validation message.                                                     *)
(***************************************************************************)
C10_QuickBookValidation ==
    [][(/\ ev'.op = "quick"
        /\ Blank(qform.name) \/ Blank(qform.email) \/ Blank(qform.dob))
       => /\ stored' = stored
          /\ qform' = qform
          /\ ev'.arg = ValidationAlert]_vars

C10_Witness ==
    /\ ev.op = "quick" /\ ev.arg = ValidationAlert
    /\ qform.name.value = <<" ", " ">>
    /\ qform.email.value = <<"a">>
    /\ qform.dob.value = <<"d">>

(***************************************************************************)
(* C11  A full-booking submission that passes constraint validation and    *)
(* has a non-empty honeypot field leaves the journal, the status text and  *)
(* the form fields unchanged and issues no network request.                *)
(***************************************************************************)
C11_HoneypotDiscard ==
    [][(/\ ev'.op = "booking" /\ ev'.arg # "invalid"
        /\ bform.hp.present /\ bform.hp.value # EmptyString)
       => /\ stored' = stored
          /\ bstatus' = bstatus
          /\ bform' = bform
          /\ inflight' = inflight]_vars

C11_Witness ==
    /\ ev.op = "booking" /\ ev.arg = "honeypot"
    /\ bform.hp.value = <<"a">> /\ bform.name.value = <<"a">>
    /\ endpoint = Http \o <<":">>
    /\ inflight = <<>>

(***************************************************************************)
(* C12  An accepted full-booking submission whose endpoint attribute is    *)
(* absent, empty or does not start with 'http' issues no network request   *)
(* and, with a storage write that goes through, appends exactly one record *)
(* marked with a fallback-saved timestamp and resets the form.             *)
(***************************************************************************)
C12_NoEndpointSavesLocally ==
    [][(/\ ev'.op = "booking" /\ ev'.arg \notin {"invalid", "honeypot"}
        /\ endpoint \in {Null, EmptyString} \/ ~StartsWith(endpoint, Http)
        /\ ev'.ok)
       => /\ inflight' = inflight
          /\ OneAppended(stored, stored')
          /\ IsFallbackRecord(Newest(stored'), FormDataObj(bform))
          /\ IsReset(bform')]_vars

(***************************************************************************)
(* C13  Starting from a well-formed stored journal, on every step of every *)
(* handler the journal before the step is a prefix of the journal after    *)
(* it, and sector activation and the modal operations leave it unchanged.  *)
(***************************************************************************)
IsPrefix(a, b) == Len(a) <= Len(b) /\ SubSeq(b, 1, Len(a)) = a

C13_JournalAppendOnly ==
    [][/\ IsArray(stored) => IsArray(stored') /\ IsPrefix(Journal(stored), Journal(stored'))
       /\ ev'.op \in {"article", "sector", "click", "key"} => stored' = stored]_vars

C13_Witness ==
    /\ ev.op = "jsonSettled" /\ ~ev.threw
    /\ stored.t = "array" /\ Len(stored.items) = 2
    /\ "created" \in DOMAIN stored.items[1] /\ stored.items[1].created = 1
    /\ "serverResponse" \in DOMAIN stored.items[2]

(***************************************************************************)
(* C14  With several full-booking submissions in flight at once and        *)
(* quick-book submissions made while they are suspended, in any order of   *)
(* completion, every accepted submission contributes exactly one record    *)
(* and no record written by another handler is overwritten or lost.        *)
(***************************************************************************)
\* this step is the part of a handler run that writes the journal
WritingStep ==
    \/ ev'.op = "quick" /\ ev'.arg # ValidationAlert
    \/ ev'.op = "booking" /\ ev'.arg = "local"
    \/ FetchFailedStep
    \/ JsonSettledStep

\* the fields the submission of this step collected
SubmittedFields ==
    CASE ev'.op = "quick" ->
           [name |-> Trim(qform.name.value), email |-> Trim(qform.email.value),
            dob |-> qform.dob.value]
      [] ev'.op = "booking" -> FormDataObj(bform)
      [] OTHER -> inflight[ev'.n].obj

C14_EverySubmissionRecorded ==
    [][WritingStep =>
         /\ OneAppended(stored, stored')
         /\ CarriesFields(Newest(stored'), SubmittedFields)]_vars

\* C14 as amended: a submission one of whose journal writes goes through
\* contributes exactly one record, appended after all records there are; one
\* whose writes all throw contributes none; and no other step changes the
\* stored journal.
C14_NoLostAppends ==
    [][IF WritingStep /\ IsArray(stored) /\ (ev'.ok \/ (ev'.op = "jsonSettled" /\ ev'.ok2))
       THEN /\ OneAppended(stored, stored')
            /\ CarriesFields(Newest(stored'), SubmittedFields)
            /\ ~ev'.threw
       ELSE /\ stored' = stored
            /\ WritingStep => ev'.threw]_vars

C14_Witness ==
    /\ ev.op = "jsonSettled" /\ ev.n = 2 /\ ~ev.threw
    /\ 1 \in DOMAIN inflight
    /\ stored.t = "array" /\ Len(stored.items) = 1
    /\ "serverResponse" \in DOMAIN stored.items[1]

(***************************************************************************)
(* C15  The diagram has at most, and once built exactly, 12 sectors;       *)
(* sector i (0..11) spans [i*30 - 90, i*30 - 60) degrees, each sector      *)
(* starts where the one before it ends, the last ends 360 degrees after    *)
(* the first starts, sector i has house and label i+1, and the fill        *)
(* alternates with the parity of i.                                        *)
(***************************************************************************)
C15_SectorTiling ==
    LET s == kundli.slices IN
    /\ Len(s) <= 12
    /\ kundli.mounted => Len(s) = 12
    /\ \A k \in DOMAIN s :
         /\ s[k].start = (k - 1) * 30 - 90
         /\ s[k].end = (k - 1) * 30 - 60
         /\ s[k].house = k /\ s[k].label = k
         /\ k > 1 => s[k - 1].end = s[k].start /\ s[k - 1].fill # s[k].fill
         /\ k > 2 => s[k - 2].fill = s[k].fill
    /\ Len(s) = 12 => s[12].end = s[1].start + 360

C15_Witness == ev.op = "mount" /\ kundli.mounted /\ Len(kundli.slices) = 12

(***************************************************************************)
(* C16  With a well-formed journal, activating sector h opens a modal      *)
(* that names house h, and its 'For:' line carries the name of the last    *)
(* record when the journal is non-empty and that name is non-empty, and    *)
(* is absent otherwise.                                                    *)
(***************************************************************************)
C16_SectorUsesLastRecord ==
    (ev.op = "sector" /\ IsArray(stored)) =>
        LET j == Journal(stored) IN
        /\ ~ev.threw
        /\ modals # <<>>
        /\ modals[Len(modals)].html.kind = "house"
        /\ modals[Len(modals)].html.house = ev.n
        /\ modals[Len(modals)].html.owner =
              IF j # <<>> /\ j[Len(j)].name # EmptyString
              THEN j[Len(j)].name
              ELSE EmptyString

C16_Witness ==
    /\ ev.op = "sector" /\ ev.n = 5
    /\ stored.t = "array" /\ Len(stored.items) = 2
    /\ stored.items[1].name # stored.items[2].name
    /\ modals # <<>>
    /\ modals[Len(modals)].html.owner = stored.items[2].name
    /\ stored.items[2].name # EmptyString

(***************************************************************************)
(* C17  Every suspension of the booking handler, the read of the response  *)
(* body included, is bounded by the 15-second timer: a suspended handler   *)
(* always has its timer armed, so it cannot stay at 'Submitting...'.       *)
(***************************************************************************)
C17_TimerBoundsSuspension == \A id \in DOMAIN inflight : inflight[id].timer

(***************************************************************************)
(* C18  A network request is issued only by a booking submission, one per  *)
(* submission; a step on which a request fails ends that handler run and   *)
(* issues no request, and no other event issues one.                       *)
(***************************************************************************)
Pending(f) == {id \in DOMAIN f : f[id].pc = "fetch"}

C18_NoAutomaticRetry ==
    [][/\ Pending(inflight') \ Pending(inflight) # {} =>
            /\ ev'.op = "booking" /\ ev'.arg = "fetch"
            /\ Pending(inflight') \ Pending(inflight) = {ev'.n}
            /\ ev'.n \notin DOMAIN inflight
       /\ ev'.op \in {"fetchSettled", "jsonSettled"} =>
            /\ Pending(inflight') = Pending(inflight) \ {ev'.n}
            /\ DOMAIN inflight' \subseteq DOMAIN inflight
       /\ FetchFailedStep => ev'.n \notin DOMAIN inflight']_vars

C18_Witness ==
    /\ ev.op = "fetchSettled" /\ ev.arg \in FetchFailures /\ ~ev.threw
    /\ DOMAIN inflight = {}
    /\ stored.t = "array" /\ stored.items # <<>>
    /\ "serverResponse" \notin DOMAIN stored.items[Len(stored.items)]
    /\ bstatus.present /\ bstatus.text = SavedLocally

(***************************************************************************)
(* C19  On a narrow viewport with both navigation elements present, the    *)
(* panel's display is 'flex' exactly when aria-expanded is 'true'.         *)
(***************************************************************************)
C19_DisplayMatchesExpanded ==
    (nav.toggle /\ nav.links /\ nav.width < 720) =>
        (nav.display = "flex" <=> nav.expanded = "true")

====
